---- MODULE Spec2Model ----
(***************************************************************************)
(* Word-level model of the allocator in src/Dynamic_Mem_Alloc.c.           *)
(*                                                                         *)
(* The heap region is a function from byte addresses of 4-byte words to    *)
(* the int stored there.  Every read and write of the C code is a read or  *)
(* write of one word of that function.  An access to an address that is    *)
(* not mapped ends the process (SIGSEGV): the region obtained by           *)
(* init_heap is the only mapping in reach of the allocator.                *)
(***************************************************************************)
EXTENDS Integers, Naturals, Sequences, FiniteSets, TLC

VARIABLES
  heap_start,      \* blockHeader *heap_start (an address, NULL before init_heap)
  alloc_size,      \* int alloc_size
  allocated_once,  \* static int allocated_once of init_heap
  mem,             \* the mapped region: word address -> int
  fault,           \* the process was killed inside a call
  last,            \* the last call: its name, argument, result (0 when killed);
                   \* aux counts the blocks absorbed by the coalesce calls in a
                   \* row that this one ends, or the fitting free blocks balloc
                   \* passed over, or the kept addresses bfree released
  freed,           \* one address bfree released since the last balloc call, or none
  track,           \* whether freed is kept in this run
  held,            \* the payload addresses balloc returned that bfree has not
                   \* released since, each with the size of its block
  watch,           \* whether held is kept in this run
  req,             \* request size handed to the block size computation
  blk              \* the block size computed for req (0: none yet)

vars == <<heap_start, alloc_size, allocated_once, mem, fault, last, freed, track,
          held, watch, req, blk>>

(***************************************************************************)
(* Bounds of the model and constants of the program                        *)
(***************************************************************************)
PageUnits == 6          \* page size of the modelled host, in 8-byte units
MaxReqBlocks == 4       \* largest small request, in 8-byte units of block size
MaxProbe == 60          \* span of requests handed to the size computation

PageSize == 8 * PageUnits   \* getpagesize()
IntMax == 2147483647        \* INT_MAX of the 32-bit int
IntMin == -IntMax - 1
NULL == 0
HeaderSize == 4             \* sizeof(blockHeader): one int

MmapAddrs == {2 * PageSize}   \* page-aligned result of mmap

\* sizeOfRegion: not positive, one byte, a whole page
RegionSizes == {0, 1, PageSize}

\* what open() and mmap() do when init_heap reaches them
EnvOutcomes == {"ok", "open fails", "mmap fails"}

\* size: non-positive, the largest request of each small block size, and the
\* requests around the largest block size an int holds
ReqSizes ==
  {-1, 0}
    \cup {8 * k - HeaderSize : k \in 1..MaxReqBlocks}
    \cup {IntMax - 11, IntMax}

\* size: the largest request the heap of a one-page region can serve
WholeHeapReqSizes == {PageSize - 8 - HeaderSize}

(***************************************************************************)
(* Bit manipulation of size_status                                         *)
(***************************************************************************)
\* x & 1
ABit(x) == x % 2

\* (x & 2) >> 1
PBit(x) == (x % 4) \div 2

\* x & 3
StatusBits(x) == x % 4

\* x >> 2 << 2 and x & ~3 (the same value in two's complement)
ClearLow2(x) == x - (x % 4)

\* x | 1
SetABit(x) == IF ABit(x) = 1 THEN x ELSE x + 1

\* x & ~3 for x & ~1: both status bits cleared
ClearABitAndPBit(x) == x - (x % 4)

\* x & ~1
ClearABit(x) == IF ABit(x) = 1 THEN x - 1 ELSE x

\* x | 2
SetPBit(x) == IF PBit(x) = 1 THEN x ELSE x + 2

\* x & ~2
ClearPBit(x) == IF PBit(x) = 1 THEN x - 2 ELSE x

Mapped(m, a) == a \in DOMAIN m

\* steps a traversal of region m can take before it must have left it
Fuel(m) == Cardinality(DOMAIN m) + 1

(***************************************************************************)
(* balloc: block size                                                      *)
(***************************************************************************)
\* (size + sizeof(blockHeader) + 7) / 8 in size_t, for size >= 1
BlockUnits(size) == (size \div 8) + (((size % 8) + HeaderSize + 7) \div 8)

\* int blockSize = ((size + sizeof(blockHeader) + 7) / 8) * 8;
\* the size_t product is converted to int modulo 2^32
BlockSize(size) ==
  LET q == BlockUnits(size)
  IN IF q >= 268435456 THEN 8 * (q - 536870912) ELSE 8 * q

(***************************************************************************)
(* balloc: best-fit scan                                                   *)
(***************************************************************************)
\* the comparison with <= for <: a later block of equal size replaces the choice
IsBetterFitOrEqual(m, bestFit, currentSize) ==
  bestFit = NULL \/ currentSize <= ClearLow2(m[bestFit])

\* bestFit == NULL || currentSize < (bestFit->size_status >> 2 << 2)
IsBetterFit(m, bestFit, currentSize) ==
  bestFit = NULL \/ currentSize < ClearLow2(m[bestFit])

\* currentSize == blockSize: stop the scan
IsExactFit(currentSize, blockSize) == currentSize = blockSize

RECURSIVE Scan(_, _, _, _, _)
Scan(m, current, bestFit, blockSize, fuel) ==
  IF ~Mapped(m, current) THEN [status |-> "wild", bestFit |-> bestFit]
  ELSE IF m[current] = 1 THEN [status |-> "ok", bestFit |-> bestFit]
  ELSE IF fuel = 0 THEN [status |-> "loop", bestFit |-> bestFit]
  ELSE
    LET currentSize == ClearLow2(m[current])
        fits == ABit(m[current]) = 0 /\ currentSize >= blockSize
        better == fits /\ IsBetterFit(m, bestFit, currentSize)
    IN IF better /\ IsExactFit(currentSize, blockSize)
       THEN [status |-> "ok", bestFit |-> current]
       ELSE Scan(m, current + currentSize,
                 IF better THEN current ELSE bestFit, blockSize, fuel - 1)

\* the free blocks of size >= blockSize the scan met before the one it chose
RECURSIVE PassedOver(_, _, _, _, _)
PassedOver(m, current, bestFit, blockSize, fuel) ==
  IF current = bestFit \/ ~Mapped(m, current) \/ m[current] = 1 \/ fuel = 0 THEN 0
  ELSE LET currentSize == ClearLow2(m[current])
       IN (IF ABit(m[current]) = 0 /\ currentSize >= blockSize THEN 1 ELSE 0)
            + PassedOver(m, current + currentSize, bestFit, blockSize, fuel - 1)

(***************************************************************************)
(* balloc: placement                                                       *)
(***************************************************************************)
\* int remainder = (bestFit->size_status >> 2 << 2) - blockSize overflows int:
\* undefined behaviour, which a build either traps or wraps (see balloc)
RemainderOverflows(bestSize, blockSize) ==
  blockSize < 0 /\ bestSize > IntMax + blockSize

\* the remainder, wrapped modulo 2^32 where the subtraction overflows
Remainder(bestSize, blockSize) ==
  IF RemainderOverflows(bestSize, blockSize)
  THEN ((bestSize + IntMin) - blockSize) + IntMin
  ELSE bestSize - blockSize

\* the split test without the 8 bytes of payload
LargeEnoughToSplitHeaders(remainder) ==
  remainder < 0 \/ remainder >= HeaderSize * 2

\* remainder >= sizeof(blockHeader) * 2 + 8, compared in size_t
LargeEnoughToSplit(remainder) ==
  remainder < 0 \/ remainder >= HeaderSize * 2 + 8

\* the header of the split branch without its | 1
AllocatedHeaderNoABit(blockSize, old) == blockSize + StatusBits(old)

\* blockSize | (bestFit->size_status & 3) | 1
AllocatedHeader(blockSize, old) == blockSize + SetABit(StatusBits(old))

\* the header of the split-off block with the header size taken off its size
RemainderHeaderLessHeader(remainder) == SetPBit(remainder - HeaderSize)

\* remainder | 2
RemainderHeader(remainder) == SetPBit(remainder)

\* nextBlock->size_status |= 2, unless nextBlock is the end mark
MarkNext(m, nextBlock) ==
  IF ~Mapped(m, nextBlock) THEN [mem |-> m, ok |-> FALSE]
  ELSE IF m[nextBlock] # 1
       THEN [mem |-> [m EXCEPT ![nextBlock] = SetPBit(@)], ok |-> TRUE]
       ELSE [mem |-> m, ok |-> TRUE]

\* lines 120-146: split the best-fit block or take it whole
Place(m, bestFit, blockSize, remainder) ==
  IF LargeEnoughToSplit(remainder)
  THEN LET m1 == [m EXCEPT ![bestFit] = AllocatedHeader(blockSize, @)]
           newBlock == bestFit + blockSize
       IN IF ~Mapped(m1, newBlock) THEN [mem |-> m1, ok |-> FALSE]
          ELSE MarkNext([m1 EXCEPT ![newBlock] = RemainderHeader(remainder)],
                        newBlock + remainder)
  ELSE LET m1 == [m EXCEPT ![bestFit] = SetABit(@)]
       IN MarkNext(m1, bestFit + ClearLow2(m1[bestFit]))

(***************************************************************************)
(* bfree                                                                   *)
(***************************************************************************)
\* the pointer check without its upper limit
BadPtrNoUpperLimit(ptr, hs, as) ==
  \/ ptr = NULL
  \/ ptr % 8 # 0
  \/ ptr < hs + HeaderSize

\* the pointer check with <= for < at the lower limit
BadPtrLowerLimitLate(ptr, hs, as) ==
  \/ ptr = NULL
  \/ ptr % 8 # 0
  \/ ptr <= hs + HeaderSize
  \/ ptr >= hs + as

\* !ptr || ptr % 8 != 0 || ptr < heap_start + 1 || ptr >= (char*)heap_start + alloc_size
BadPtr(ptr, hs, as) ==
  \/ ptr = NULL
  \/ ptr % 8 # 0
  \/ ptr < hs + HeaderSize
  \/ ptr >= hs + as

\* the double-free test reading bit 1 for bit 0
AlreadyFreedByPBit(w) == PBit(w) = 0

\* !(block->size_status & 1)
AlreadyFreed(w) == ABit(w) = 0

\* the release that absorbs a free next block at once
ReleaseMerging(m, block) ==
  LET m1 == [m EXCEPT ![block] = ClearABit(@)]
      nextBlock == block + ClearLow2(m1[block])
  IN IF ~Mapped(m1, nextBlock) THEN [mem |-> m1, ok |-> FALSE]
     ELSE IF m1[nextBlock] # 1 /\ ABit(m1[nextBlock]) = 0
          THEN [mem |-> [m1 EXCEPT ![block] = @ + ClearLow2(m1[nextBlock])], ok |-> TRUE]
          ELSE IF m1[nextBlock] # 1
               THEN [mem |-> [m1 EXCEPT ![nextBlock] = ClearPBit(@)], ok |-> TRUE]
               ELSE [mem |-> m1, ok |-> TRUE]

\* lines 176-185: clear the a-bit, then the p-bit of the next block
Release(m, block) ==
  LET m1 == [m EXCEPT ![block] = ClearABit(@)]
      nextBlock == block + ClearLow2(m1[block])
  IN IF ~Mapped(m1, nextBlock) THEN [mem |-> m1, ok |-> FALSE]
     ELSE IF m1[nextBlock] # 1
          THEN [mem |-> [m1 EXCEPT ![nextBlock] = ClearPBit(@)], ok |-> TRUE]
          ELSE [mem |-> m1, ok |-> TRUE]

(***************************************************************************)
(* coalesce                                                                *)
(***************************************************************************)
\* the loop test reading bit 1 for bit 0
NextIsFreeByPBit(w) == w # 1 /\ PBit(w) = 0

\* nextBlock->size_status != 1 && !(nextBlock->size_status & 1)
NextIsFree(w) == w # 1 /\ ABit(w) = 0

\* the bit set by addition, as init_heap sets it (size_status += 2)
AfterRunAdding(w) == w + 2

\* nextBlock->size_status |= 2 after the inner loop
AfterRun(w) == SetPBit(w)

\* lines 206-218 for the free block at current
RECURSIVE Absorb(_, _, _, _)
Absorb(m, current, merged, fuel) ==
  LET nextBlock == current + ClearLow2(m[current])
  IN IF ~Mapped(m, nextBlock) THEN [mem |-> m, status |-> "wild", merged |-> merged]
     ELSE IF fuel = 0 THEN [mem |-> m, status |-> "loop", merged |-> merged]
     ELSE IF NextIsFree(m[nextBlock])
          THEN Absorb([m EXCEPT ![current] = @ + ClearLow2(m[nextBlock])],
                      current, merged + 1, fuel - 1)
          ELSE IF m[nextBlock] # 1
               THEN [mem |-> [m EXCEPT ![nextBlock] = AfterRun(@)],
                     status |-> "ok", merged |-> merged]
               ELSE [mem |-> m, status |-> "ok", merged |-> merged]

\* lines 199-225
RECURSIVE CoalesceFrom(_, _, _, _)
CoalesceFrom(m, current, merged, fuel) ==
  IF ~Mapped(m, current) THEN [mem |-> m, status |-> "wild", merged |-> merged]
  ELSE IF m[current] = 1 THEN [mem |-> m, status |-> "ok", merged |-> merged]
  ELSE IF fuel = 0 THEN [mem |-> m, status |-> "loop", merged |-> merged]
  ELSE IF ABit(m[current]) = 0
       THEN LET r == Absorb(m, current, merged, Fuel(m))
            IN IF r.status # "ok" THEN r
               ELSE CoalesceFrom(r.mem, current + ClearLow2(r.mem[current]),
                                 r.merged, fuel - 1)
       ELSE CoalesceFrom(m, current + ClearLow2(m[current]), merged, fuel - 1)

(***************************************************************************)
(* init_heap                                                               *)
(***************************************************************************)
\* the padding without its second % pagesize: a whole page for a whole page
PadSizeNoWrap(sizeOfRegion) == PageSize - (sizeOfRegion % PageSize)

\* padsize = sizeOfRegion % pagesize; padsize = (pagesize - padsize) % pagesize;
PadSize(sizeOfRegion) == (PageSize - (sizeOfRegion % PageSize)) % PageSize

\* the initial region without line 299 (size_status += 2)
InitialRegionWithoutPBit(base, padded) ==
  LET hs == base + HeaderSize
      usable == padded - 8
      zero == [a \in {base + 4 * i : i \in 0..((padded \div 4) - 1)} |-> 0]
      m1 == [zero EXCEPT ![hs + usable] = 1]
      m2 == [m1 EXCEPT ![hs] = usable]
  IN [m2 EXCEPT ![hs + usable - 4] = usable]

\* the zero-filled mapping with the header, footer and end mark of lines 284-303
InitialRegion(base, padded) ==
  LET hs == base + HeaderSize
      usable == padded - 8
      zero == [a \in {base + 4 * i : i \in 0..((padded \div 4) - 1)} |-> 0]
      m1 == [zero EXCEPT ![hs + usable] = 1]
      m2 == [m1 EXCEPT ![hs] = usable + 2]
  IN [m2 EXCEPT ![hs + usable - 4] = usable]

(***************************************************************************)
(* The calls                                                               *)
(***************************************************************************)
Call(op, arg, ret, aux) ==
  [op |-> op, arg |-> arg, ret |-> ret, aux |-> aux,
   again |-> op = "coalesce" /\ last.op = "coalesce"]

\* the process dies inside the call (an access outside the mapping, a trapped
\* overflow) or never leaves a loop of it; the region is left as m
Killed(op, arg, m) ==
  /\ fault' = TRUE
  /\ mem' = m
  /\ last' = Call(op, arg, 0, 0)
  /\ UNCHANGED <<heap_start, alloc_size, allocated_once, track, held, watch, req, blk>>

Returns(op, arg, ret, aux, m) ==
  /\ mem' = m
  /\ last' = Call(op, arg, ret, aux)
  /\ UNCHANGED <<heap_start, alloc_size, allocated_once, fault, track, watch, req, blk>>

\* the test of the earlier call that looks for a second success
AllocatedBeforeTwice(once) == once > 1

\* 0 != allocated_once
AllocatedBefore(once) == 0 # once

init_heap(sizeOfRegion, base, env) ==
  /\ ~fault
  /\ UNCHANGED <<fault, freed, track, held, watch, req, blk>>
  /\ IF AllocatedBefore(allocated_once) \/ sizeOfRegion <= 0
     THEN /\ last' = Call("init_heap", sizeOfRegion, -1, 0)
          /\ UNCHANGED <<heap_start, alloc_size, allocated_once, mem>>
     ELSE LET padded == sizeOfRegion + PadSize(sizeOfRegion)
          IN IF env \in {"open fails", "mmap fails"}
             THEN /\ alloc_size' = padded
                  /\ allocated_once' = 0
                  /\ last' = Call("init_heap", sizeOfRegion, -1, 0)
                  /\ UNCHANGED <<heap_start, mem>>
             ELSE /\ allocated_once' = 1
                  /\ alloc_size' = padded - 8
                  /\ heap_start' = base + HeaderSize
                  /\ mem' = InitialRegion(base, padded)
                  /\ last' = Call("init_heap", sizeOfRegion, 0, 0)

balloc(size) ==
  /\ ~fault
  /\ IF size < 1 THEN Returns("balloc", size, NULL, 0, mem) /\ UNCHANGED held
     ELSE
       LET blockSize == BlockSize(size)
           s == Scan(mem, heap_start, NULL, blockSize, Fuel(mem))
           bestFit == s.bestFit
       IN IF s.status # "ok" THEN Killed("balloc", size, mem)
          ELSE IF bestFit = NULL
               THEN Returns("balloc", size, NULL, 0, mem) /\ UNCHANGED held
          ELSE
            LET bestSize == ClearLow2(mem[bestFit])
                p == Place(mem, bestFit, blockSize, Remainder(bestSize, blockSize))
                got == [ptr |-> bestFit + HeaderSize, size |-> ClearLow2(p.mem[bestFit])]
                done == IF p.ok
                        THEN /\ Returns("balloc", size, bestFit + HeaderSize,
                                        PassedOver(mem, heap_start, bestFit, blockSize, Fuel(mem)),
                                        p.mem)
                             /\ held' = (IF watch THEN held \cup {got} ELSE held)
                        ELSE Killed("balloc", size, p.mem)
            IN IF RemainderOverflows(bestSize, blockSize)
               THEN \E outcome \in {"trap", "wrap"} :
                      IF outcome = "trap" THEN Killed("balloc", size, mem) ELSE done
               ELSE done
  /\ freed' = {}

bfree(ptr) ==
  /\ ~fault
  /\ IF BadPtr(ptr, heap_start, alloc_size)
     THEN Returns("bfree", ptr, -1, 0, mem) /\ UNCHANGED <<freed, held>>
     ELSE
       LET block == ptr - HeaderSize
       IN IF ~Mapped(mem, block) THEN Killed("bfree", ptr, mem) /\ UNCHANGED freed
          ELSE IF AlreadyFreed(mem[block])
               THEN Returns("bfree", ptr, -1, 0, mem) /\ UNCHANGED <<freed, held>>
               ELSE LET r == Release(mem, block)
                    IN IF r.ok
                       THEN Returns("bfree", ptr, 0, Cardinality({h \in held : h.ptr = ptr}),
                                    r.mem)
                            /\ freed' \in (IF track THEN {freed, {ptr}} ELSE {freed})
                            /\ held' = {h \in held : h.ptr # ptr}
                       ELSE Killed("bfree", ptr, r.mem) /\ UNCHANGED freed

coalesce ==
  /\ ~fault
  /\ UNCHANGED freed
  /\ LET r == CoalesceFrom(mem, heap_start, 0, Fuel(mem))
     IN IF r.status = "ok"
        THEN /\ Returns("coalesce", 0, 0,
                        r.merged + (IF last.op = "coalesce" THEN last.aux ELSE 0), r.mem)
             /\ UNCHANGED held
        ELSE Killed("coalesce", 0, r.mem)

\* the pointers handed to bfree: NULL, an aligned address below every mapping,
\* an address 5 bytes off alignment, and the aligned addresses from the first
\* payload to the end of the region
FreePtrs ==
  {NULL, 8}
    \cup {b + 13 : b \in MmapAddrs}
    \cup {b + 8 * k : b \in MmapAddrs, k \in 1..PageUnits}

Untouched ==
  /\ heap_start = NULL
  /\ alloc_size = 0
  /\ allocated_once = 0
  /\ mem = [a \in {} |-> 0]
  /\ fault = FALSE
  /\ last = [op |-> "none", arg |-> 0, ret |-> 0, aux |-> 0, again |-> FALSE]
  /\ freed = {}
  /\ held = {}

Init == Untouched /\ track = FALSE /\ watch = FALSE /\ req = 0 /\ blk = 0

Next ==
  \/ \E s \in RegionSizes, b \in MmapAddrs :
       \E e \in (IF allocated_once # 0 \/ s <= 0 THEN {"ok"} ELSE EnvOutcomes) :
         init_heap(s, b, e)
  \/ \E n \in ReqSizes : balloc(n)
  \/ \E p \in FreePtrs : bfree(p)
  \/ coalesce

Spec == Init /\ [][Next]_vars

\* the same calls, with the released addresses kept
InitFreed == Untouched /\ track = TRUE /\ watch = FALSE /\ req = 0 /\ blk = 0

SpecFreed == InitFreed /\ [][Next]_vars

\* the same calls and requests for the whole heap, with the addresses that
\* are in use kept
InitHeld == Untouched /\ track = FALSE /\ watch = TRUE /\ req = 0 /\ blk = 0

NextHeld ==
  \/ Next
  \/ \E n \in WholeHeapReqSizes : balloc(n)

SpecHeld == InitHeld /\ [][NextHeld]_vars

(***************************************************************************)
(* The block size computation alone, over requests at both ends of int     *)
(***************************************************************************)
Probes == (1..MaxProbe) \cup {IntMax - k : k \in 0..MaxProbe}

InitSize == Untouched /\ track = FALSE /\ watch = FALSE /\ req \in Probes /\ blk = 0

\* line 89 for size = req
ComputeBlockSize ==
  /\ blk = 0
  /\ blk' = BlockSize(req)
  /\ UNCHANGED <<heap_start, alloc_size, allocated_once, mem, fault, last, freed, track,
                 held, watch, req>>

NextSize == ComputeBlockSize

SpecSize == InitSize /\ [][NextSize]_vars

(***************************************************************************)
(* Decoding the heap: the blocks met from heap_start to the end mark       *)
(***************************************************************************)
Initialized == heap_start # NULL

Alive == Initialized /\ ~fault

\* the address init_heap put the end mark at
EndMark == heap_start + alloc_size

\* the block starts met from a by advancing by each header's size, and whether
\* every size met was a positive multiple of 8 and the walk arrived at stop
RECURSIVE Walk(_, _, _, _)
Walk(m, a, stop, fuel) ==
  IF a = stop THEN [blocks |-> << >>, ok |-> Mapped(m, a) /\ m[a] = 1]
  ELSE IF ~Mapped(m, a) \/ fuel = 0 \/ a > stop THEN [blocks |-> << >>, ok |-> FALSE]
  ELSE LET size == ClearLow2(m[a])
       IN IF m[a] = 1 \/ size <= 0 \/ size % 8 # 0
          THEN [blocks |-> << >>, ok |-> FALSE]
          ELSE LET rest == Walk(m, a + size, stop, fuel - 1)
               IN [blocks |-> <<a>> \o rest.blocks, ok |-> rest.ok]

BlocksOf(m) == Walk(m, heap_start, EndMark, Fuel(m)).blocks

Blocks == BlocksOf(mem)

SizeAt(m, b) == ClearLow2(m[b])

IsFree(m, b) == ABit(m[b]) = 0

(***************************************************************************)
(* C1: after a successful init_heap and any calls that returned, walking   *)
(* from heap_start by the header sizes meets only positive multiples of 8  *)
(* and arrives exactly at the end mark init_heap wrote, which still holds  *)
(* 1: the blocks tile the region.                                          *)
(***************************************************************************)
\* (every region of the model is one page: the end mark is 8 bytes before the
\* end of the page that starts 4 bytes before heap_start)
C1_BlocksTileRegion ==
  Alive => /\ Walk(mem, heap_start, EndMark, Fuel(mem)).ok
           /\ mem[EndMark] = 1
           /\ EndMark = heap_start + PageSize - 8

\* a heap of three or more blocks that balloc split, bfree released and
\* coalesce merged
C1_Witness ==
  /\ Alive
  /\ last.op = "coalesce" /\ ~last.again /\ last.aux >= 1
  /\ Len(Blocks) >= 3
  /\ \E i \in 1..Len(Blocks) : ~IsFree(mem, Blocks[i])

(***************************************************************************)
(* C2: after every call that returned, each block that has a predecessor   *)
(* carries in bit 1 the allocated bit (bit 0) of that predecessor.         *)
(***************************************************************************)
C2_PrevBitMatchesPredecessor ==
  Alive => \A i \in 1..(Len(Blocks) - 1) :
             PBit(mem[Blocks[i + 1]]) = ABit(mem[Blocks[i]])

(***************************************************************************)
(* C3: after every call that returned, the last word of every free block   *)
(* (its footer) holds the size its header holds.                           *)
(***************************************************************************)
FooterOf(m, b) == m[b + SizeAt(m, b) - HeaderSize]

C3_FooterMatchesHeader ==
  Alive => \A i \in 1..Len(Blocks) :
             IsFree(mem, Blocks[i]) => FooterOf(mem, Blocks[i]) = SizeAt(mem, Blocks[i])

(***************************************************************************)
(* C4: a request n >= 1 that some free block can hold is served from the   *)
(* smallest free block of size >= roundUp8(n + 4), and from the lowest     *)
(* address among several of that size (what a scan to the end mark picks). *)
(***************************************************************************)
\* roundUp8(n + 4) / 8
UnitsNeeded(n) == (n \div 8) + (((n % 8) + 4 + 7) \div 8)

BlockSet(m) == {BlocksOf(m)[i] : i \in 1..Len(BlocksOf(m))}

Candidates(m, n) ==
  {b \in BlockSet(m) : IsFree(m, b) /\ SizeAt(m, b) \div 8 >= UnitsNeeded(n)}

BestCandidate(m, n) ==
  CHOOSE b \in Candidates(m, n) :
    \A c \in Candidates(m, n) :
      \/ SizeAt(m, b) < SizeAt(m, c)
      \/ SizeAt(m, b) = SizeAt(m, c) /\ b <= c

C4_BestFit ==
  [][(Alive /\ last'.op = "balloc" /\ last'.arg >= 1
        /\ Candidates(mem, last'.arg) # {})
     => /\ ~fault'
        /\ last'.ret = BestCandidate(mem, last'.arg) + HeaderSize
        /\ ~IsFree(mem', BestCandidate(mem, last'.arg))]_vars

\* balloc chose a block after passing over a larger free block that also fits
C4_Witness ==
  Alive /\ last.op = "balloc" /\ last.ret # NULL /\ last.aux >= 1

(***************************************************************************)
(* C5: balloc(n) returns NULL and leaves every word of the heap as it was  *)
(* whenever n < 1 or no free block has size >= roundUp8(n + 4), for every  *)
(* int n.                                                                  *)
(***************************************************************************)
C5_FailureLeavesHeap ==
  [][(Alive /\ last'.op = "balloc"
        /\ (last'.arg < 1 \/ Candidates(mem, last'.arg) = {}))
     => (~fault' /\ last'.ret = NULL /\ mem' = mem)]_vars

(***************************************************************************)
(* C6: for every request n from 1 to INT_MAX the int blockSize is the      *)
(* smallest multiple of 8 that is >= n + 4, so blockSize - 4 >= n.         *)
(***************************************************************************)
C6_BlockSizeRoundsUp ==
  blk # 0 => /\ blk > 0
             /\ blk % 8 = 0
             /\ blk - HeaderSize >= req
             /\ blk - HeaderSize - 8 < req

(***************************************************************************)
(* C7: once bfree(p) has returned 0, a further bfree(p) with no balloc     *)
(* call in between returns -1 and changes no word of the heap, also when   *)
(* coalesce has absorbed the block of p in between.                        *)
(***************************************************************************)
C7_DoubleFreeRejected ==
  [][(Alive /\ last'.op = "bfree" /\ last'.arg \in freed)
     => (~fault' /\ last'.ret = -1 /\ mem' = mem)]_vars

\* the second bfree(p) has returned -1 after coalesce merged the block of p
\* into the free block before it
C7_Witness ==
  /\ Alive /\ last.op = "bfree" /\ last.ret = -1
  /\ last.arg \in freed
  /\ (last.arg - HeaderSize) \notin BlockSet(mem)
  /\ \E b \in BlockSet(mem) :
       IsFree(mem, b) /\ b < last.arg /\ last.arg < b + SizeAt(mem, b)

(***************************************************************************)
(* C8: bfree(ptr) returns -1 and changes nothing when ptr is NULL, is not  *)
(* a multiple of 8, is below heap_start + 4 or is at or beyond             *)
(* heap_start + alloc_size.                                                *)
(***************************************************************************)
OutsideOrMisaligned(ptr) ==
  \/ ptr = NULL
  \/ ptr % 8 # 0
  \/ ptr < heap_start + 4
  \/ ptr >= heap_start + alloc_size

C8_BadPointerRejected ==
  [][(~fault /\ last'.op = "bfree" /\ OutsideOrMisaligned(last'.arg))
     => /\ ~fault' /\ last'.ret = -1 /\ mem' = mem
        /\ heap_start' = heap_start /\ alloc_size' = alloc_size]_vars

\* a pointer 5 bytes past an allocated payload was handed to bfree
C8_Witness ==
  /\ Alive /\ last.op = "bfree" /\ last.ret = -1
  /\ last.arg % 8 = 5
  /\ (last.arg - 5 - HeaderSize) \in BlockSet(mem)
  /\ ~IsFree(mem, last.arg - 5 - HeaderSize)

(***************************************************************************)
(* C9: when coalesce returns, no two adjacent blocks are both free: each   *)
(* maximal run of free blocks has become one free block that starts where  *)
(* the run started and ends where it ended, the other blocks are as they   *)
(* were, and the end mark is not absorbed.                                 *)
(***************************************************************************)
NoAdjacentFree(m) ==
  \A i \in 1..(Len(BlocksOf(m)) - 1) :
    ~(IsFree(m, BlocksOf(m)[i]) /\ IsFree(m, BlocksOf(m)[i + 1]))

\* the blocks of m that are allocated or start a run of free blocks
RunStarts(m) ==
  LET bs == BlocksOf(m)
      keep == {i \in 1..Len(bs) :
                 ~IsFree(m, bs[i]) \/ i = 1 \/ ~IsFree(m, bs[i - 1])}
  IN {bs[i] : i \in keep}

C9_CoalesceMergesRuns ==
  [][(Alive /\ last'.op = "coalesce")
     => /\ ~fault'
        /\ Walk(mem', heap_start, EndMark, Fuel(mem')).ok
        /\ NoAdjacentFree(mem')
        /\ BlockSet(mem') = RunStarts(mem)
        /\ \A b \in BlockSet(mem') : IsFree(mem', b) <=> IsFree(mem, b)
        /\ mem'[EndMark] = 1]_vars

\* coalesce has merged a run of three or more free blocks that ends at the
\* end mark
C9_Witness ==
  /\ Alive /\ last.op = "coalesce" /\ ~last.again /\ last.aux >= 2
  /\ Len(Blocks) >= 2
  /\ IsFree(mem, Blocks[Len(Blocks)])
  /\ SizeAt(mem, Blocks[Len(Blocks)]) >= 24

(***************************************************************************)
(* C10: a coalesce call that directly follows a coalesce call changes no   *)
(* word of the heap, and both return 0.                                    *)
(***************************************************************************)
C10_CoalesceIdempotent ==
  [][(Alive /\ last.op = "coalesce" /\ last'.op = "coalesce")
     => (~fault' /\ mem' = mem /\ last.ret = 0 /\ last'.ret = 0)]_vars

\* the second of two coalesce calls in a row has returned, on a heap where the
\* first had merged blocks and had set bit 1 of the block after a free block
C10_Witness ==
  /\ Alive /\ last.op = "coalesce" /\ last.again /\ last.ret = 0
  /\ last.aux >= 1
  /\ \E i \in 1..(Len(Blocks) - 1) :
       /\ IsFree(mem, Blocks[i])
       /\ SizeAt(mem, Blocks[i]) >= 16
       /\ PBit(mem[Blocks[i + 1]]) = 1

(***************************************************************************)
(* C11: once an init_heap call has returned 0, every later init_heap call, *)
(* whatever its argument, returns -1 and leaves heap_start, alloc_size and *)
(* every word of the heap as they were; init_heap(S) with S <= 0 returns   *)
(* -1 and creates no heap.                                                 *)
(***************************************************************************)
C11_InitHeapOnce ==
  [][(~fault /\ last'.op = "init_heap" /\ (Initialized \/ last'.arg <= 0))
     => /\ ~fault' /\ last'.ret = -1
        /\ heap_start' = heap_start /\ alloc_size' = alloc_size
        /\ mem' = mem]_vars

\* a second init_heap with a whole page as its argument has returned -1 on a
\* heap that holds an allocated block
C11_Witness ==
  /\ Alive /\ last.op = "init_heap" /\ last.ret = -1 /\ last.arg = PageSize
  /\ Len(Blocks) >= 2
  /\ \E i \in 1..Len(Blocks) : ~IsFree(mem, Blocks[i])

(***************************************************************************)
(* C12: right after a successful init_heap(S) the heap is one block and    *)
(* the end mark: the block is free, has bit 1 set, holds in its header and *)
(* in its footer the usable size (S rounded up to whole pages, less 8),    *)
(* and the word after it is exactly 1.                                     *)
(***************************************************************************)
\* S rounded up to a multiple of the page size
RoundUpToPage(S) == ((S + PageSize - 1) \div PageSize) * PageSize

C12_InitialLayout ==
  (~fault /\ last.op = "init_heap" /\ last.ret = 0)
    => LET usable == RoundUpToPage(last.arg) - 8
       IN /\ Blocks = <<heap_start>>
          /\ mem[heap_start] = usable + 2
          /\ IsFree(mem, heap_start) /\ PBit(mem[heap_start]) = 1
          /\ SizeAt(mem, heap_start) = usable
          /\ mem[heap_start + usable - 4] = usable
          /\ mem[heap_start + usable] = 1

\* init_heap(1) has returned 0: the region was rounded up from one byte
C12_Witness ==
  ~fault /\ last.op = "init_heap" /\ last.ret = 0 /\ last.arg = 1

(***************************************************************************)
(* C13: after a successful init_heap(S) and any calls that returned, the   *)
(* sizes of the blocks met from heap_start up to the word that holds 1 sum *)
(* to the padded region size, S rounded up to a multiple of the page size. *)
(* (Every S > 0 of RegionSizes rounds up to one page.)                     *)
(***************************************************************************)
\* the sum of the sizes met from a until a word holds 1, as disp_heap adds
\* them up; ok tells that the word was met inside the region
RECURSIVE SumToEndMark(_, _, _)
SumToEndMark(m, a, fuel) ==
  IF ~Mapped(m, a) \/ fuel = 0 THEN [ok |-> FALSE, total |-> 0]
  ELSE IF m[a] = 1 THEN [ok |-> TRUE, total |-> 0]
  ELSE LET rest == SumToEndMark(m, a + ClearLow2(m[a]), fuel - 1)
       IN [ok |-> rest.ok /\ ClearLow2(m[a]) > 0,
           total |-> ClearLow2(m[a]) + rest.total]

TotalSize == SumToEndMark(mem, heap_start, Fuel(mem))

C13_SizesSumToPaddedSize ==
  Alive => (TotalSize.ok /\ TotalSize.total = PageSize)

\* amended: the sizes sum to the padded region size less the 8 bytes that
\* init_heap keeps for the alignment word and the end mark
C13_SizesSumToUsableSize ==
  Alive => /\ \A S \in RegionSizes : S > 0 => RoundUpToPage(S) = PageSize
           /\ TotalSize.ok
           /\ TotalSize.total = PageSize - 8

\* bfree has released a block of a heap of three or more blocks, one of them
\* still allocated
C13_Witness ==
  /\ Alive /\ last.op = "bfree" /\ last.ret = 0
  /\ Len(Blocks) >= 3
  /\ \E i \in 1..Len(Blocks) : ~IsFree(mem, Blocks[i])

(***************************************************************************)
(* C14: a bfree(p) that returns 0 merges nothing: the block starts and the *)
(* block sizes are the same after the call as before it, also when the     *)
(* block before or after p's block is free.  The header of p's block loses *)
(* bit 0 and keeps its size and bit 1; the header after it, unless it is   *)
(* the end mark, loses bit 1; no other word changes.                       *)
(***************************************************************************)
C14_BfreeDoesNotCoalesce ==
  [][(Alive /\ last'.op = "bfree" /\ last'.ret = 0 /\ ~fault')
     => LET b == last'.arg - 4
            succ == b + SizeAt(mem, b)
        IN /\ BlocksOf(mem') = BlocksOf(mem)
           /\ \A c \in BlockSet(mem) : SizeAt(mem', c) = SizeAt(mem, c)
           /\ ABit(mem[b]) = 1 /\ ABit(mem'[b]) = 0
           /\ SizeAt(mem', b) = SizeAt(mem, b) /\ PBit(mem'[b]) = PBit(mem[b])
           /\ IF mem[succ] = 1 THEN mem'[succ] = 1
              ELSE /\ PBit(mem'[succ]) = 0
                   /\ SizeAt(mem', succ) = SizeAt(mem, succ)
                   /\ ABit(mem'[succ]) = ABit(mem[succ])
           /\ \A a \in DOMAIN mem \ {b, succ} : mem'[a] = mem[a]]_vars

\* bfree has released a block that lies between two free blocks
C14_Witness ==
  /\ Alive /\ last.op = "bfree" /\ last.ret = 0
  /\ \E i \in 2..(Len(Blocks) - 1) :
       /\ Blocks[i] = last.arg - 4
       /\ IsFree(mem, Blocks[i - 1])
       /\ IsFree(mem, Blocks[i])
       /\ IsFree(mem, Blocks[i + 1])

(***************************************************************************)
(* C15: from the return of balloc with payload address p until bfree(p)    *)
(* returns 0, whatever balloc, bfree of other addresses and coalesce calls *)
(* return in between, the header at p - 4 keeps its size and bit 0 = 1,    *)
(* the bytes of the block belong to no other block that is in use, and no  *)
(* address balloc returns later lies in a block that overlaps it.          *)
(***************************************************************************)
\* the bytes [b, b + n) and [c, c + k) have none in common
Disjoint(b, n, c, k) == b + n <= c \/ c + k <= b

\* every kept address of hd names a header of m with the size it had when
\* balloc returned and bit 0 = 1, apart from the block of every other one
HeldBlockKept(m, hd) ==
  \A h \in hd :
    /\ SizeAt(m, h.ptr - 4) = h.size
    /\ ABit(m[h.ptr - 4]) = 1
    /\ \A g \in hd \ {h} : Disjoint(h.ptr - 4, h.size, g.ptr - 4, g.size)

C15_AllocatedBlocksStable ==
  [][/\ ~fault' => HeldBlockKept(mem', held')
     /\ (Alive /\ ~fault' /\ last'.op = "balloc" /\ last'.ret # NULL)
          => \A h \in held :
               Disjoint(h.ptr - 4, h.size,
                        last'.ret - 4, SizeAt(mem', last'.ret - 4))]_vars

\* coalesce has merged free blocks next to a block that was handed out before
\* a later balloc and a bfree of another address, and is still in use
C15_Witness ==
  /\ Alive /\ last.op = "coalesce" /\ ~last.again /\ last.aux >= 1
  /\ \E h \in held : \E i \in 2..Len(Blocks) :
       /\ Blocks[i] = h.ptr - 4
       /\ IsFree(mem, Blocks[i - 1])
       /\ SizeAt(mem, Blocks[i - 1]) >= 16

(***************************************************************************)
(* C16: when balloc(n) returns the payload of the free block of size s it  *)
(* chose, with blockSize = roundUp8(n + 4) and r = s - blockSize: if       *)
(* r >= 16 the chosen header becomes blockSize with bit 0 = 1 and bit 1 as *)
(* before, and the word blockSize bytes after it becomes a header of size  *)
(* r with bit 0 = 0 and bit 1 = 1; if r < 16 (r is 0 or 8) the chosen      *)
(* header keeps size s and bit 1 and gets bit 0 = 1, and the header after  *)
(* it has bit 1 = 1 unless it is the end mark.                             *)
(***************************************************************************)
C16_SplitOrWhole ==
  [][(Alive /\ ~fault' /\ last'.op = "balloc" /\ last'.ret # NULL)
     => LET b == last'.ret - 4
            s == SizeAt(mem, b)
            blockSize == 8 * UnitsNeeded(last'.arg)
            r == s - blockSize
        IN /\ b \in BlockSet(mem) /\ IsFree(mem, b) /\ r >= 0
           /\ IF r >= 16
              THEN /\ mem'[b] = blockSize + 2 * PBit(mem[b]) + 1
                   /\ mem'[b + blockSize] = r + 2
                   /\ BlockSet(mem') = BlockSet(mem) \cup {b + blockSize}
              ELSE /\ r \in {0, 8}
                   /\ mem'[b] = mem[b] + 1
                   /\ SizeAt(mem', b) = s
                   /\ BlockSet(mem') = BlockSet(mem)
                   /\ mem[b + s] = 1 \/ PBit(mem'[b + s]) = 1
                   /\ mem[b + s] = 1 => mem'[b + s] = 1]_vars

\* balloc took whole a free block 8 bytes larger than the block size it
\* needed, with a block rather than the end mark after it
C16_Witness ==
  /\ Alive /\ last.op = "balloc" /\ last.ret # NULL
  /\ SizeAt(mem, last.ret - 4) = 8 * UnitsNeeded(last.arg) + 8
  /\ mem[last.ret - 4 + SizeAt(mem, last.ret - 4)] # 1

(***************************************************************************)
(* C17: when balloc splits a free block and the block after the new free   *)
(* remainder is not the end mark, that block has bit 1 = 0 after the call. *)
(***************************************************************************)
C17_SplitClearsNextPBit ==
  [][(Alive /\ ~fault' /\ last'.op = "balloc" /\ last'.ret # NULL)
     => LET b == last'.ret - 4
            s == SizeAt(mem, b)
            r == s - 8 * UnitsNeeded(last'.arg)
        IN (r >= 16 /\ mem'[b + s] # 1) => PBit(mem'[b + s]) = 0]_vars

(***************************************************************************)
(* C18: when coalesce returns, every free block that is followed by a      *)
(* block other than the end mark is followed by a header with bit 1 = 0,   *)
(* and every free block has the bit 1 that the first block of its run had  *)
(* before the call.                                                        *)
(***************************************************************************)
C18_CoalesceClearsNextPBit ==
  [][(Alive /\ ~fault' /\ last'.op = "coalesce")
     => LET after == BlocksOf(mem')
        IN /\ \A i \in 1..(Len(after) - 1) :
                IsFree(mem', after[i]) => PBit(mem'[after[i + 1]]) = 0
           /\ \A i \in 1..Len(after) :
                IsFree(mem', after[i])
                  => /\ after[i] \in RunStarts(mem)
                     /\ PBit(mem'[after[i]]) = PBit(mem[after[i]])]_vars

(***************************************************************************)
(* C19: an address p that balloc returns is 4 bytes past the header of the *)
(* free block it chose and is a multiple of 8; and until a bfree(p) has    *)
(* returned 0, whatever other balloc, bfree and coalesce calls returned in *)
(* between, bfree(p) returns 0, also for the block right before the end    *)
(* mark.                                                                   *)
(***************************************************************************)
C19_ReturnedPointerAccepted ==
  [][/\ (Alive /\ ~fault' /\ last'.op = "balloc" /\ last'.ret # NULL)
          => /\ last'.ret % 8 = 0
             /\ (last'.ret - 4) \in Candidates(mem, last'.arg)
             /\ (last'.ret - 4) \in BlockSet(mem')
             /\ ~IsFree(mem', last'.ret - 4)
     /\ (Alive /\ last'.op = "bfree" /\ \E h \in held : h.ptr = last'.arg)
          => (~fault' /\ last'.ret = 0)]_vars

\* bfree has returned 0 for a kept address whose block ends at the end mark
\* and comes after a free block
C19_Witness ==
  /\ Alive /\ last.op = "bfree" /\ last.ret = 0 /\ last.aux = 1
  /\ last.arg - 4 + SizeAt(mem, last.arg - 4) = EndMark
  /\ \E i \in 1..(Len(Blocks) - 1) :
       Blocks[i + 1] = last.arg - 4 /\ IsFree(mem, Blocks[i])

(***************************************************************************)
(* C20: once every address that balloc returned has been released by a     *)
(* bfree that returned 0, in any order, a coalesce call leaves the heap as *)
(* init_heap made it: one free block whose header holds the usable size    *)
(* with bit 0 = 0 and bit 1 = 1, and the end mark after it; a balloc of    *)
(* the largest size a fresh heap serves, called next, succeeds.            *)
(***************************************************************************)
\* the heap of m is one free block with the header init_heap writes for a
\* one-page region, and the end mark
AsInitialised(m) ==
  /\ BlocksOf(m) = <<heap_start>>
  /\ m[heap_start] = (PageSize - 8) + 2
  /\ m[heap_start + PageSize - 8] = 1

C20_FullRecovery ==
  [][/\ (Alive /\ held = {} /\ last'.op = "coalesce")
          => (~fault' /\ last'.ret = 0 /\ AsInitialised(mem'))
     /\ (Alive /\ held = {} /\ last.op = "coalesce"
            /\ last'.op = "balloc" /\ last'.arg = PageSize - 8 - 4)
          => (~fault' /\ last'.ret = heap_start + 4)]_vars

\* coalesce has made one block of three or more, each of them handed out by
\* balloc and released by bfree before
C20_Witness ==
  /\ Alive /\ held = {}
  /\ last.op = "coalesce" /\ ~last.again /\ last.aux >= 2
  /\ AsInitialised(mem)

====
